---- MODULE Spec2Model ----
(***************************************************************************)
(* A model of pie() of src/pie.py: one call of the renderer, followed      *)
(* stage by stage (validation, wedge build, rasterization row by row,      *)
(* label overlay label by label, assembly).                                *)
(*                                                                         *)
(* Numbers.  The code computes in IEEE doubles; the model computes the     *)
(* same expressions in exact rational arithmetic on integers, so rounding  *)
(* errors of the order of 1e-16 are not represented.                       *)
(*   - An angle is an integer number of sixteenths of a turn (TwoPi = 16). *)
(*     An even value 2k is the exact angle k*pi/4, an odd value 2k+1 is    *)
(*     any angle strictly between k*pi/4 and (k+1)*pi/4.  Inputs are       *)
(*     drawn so that sum(counts) divides 8: every wedge boundary is then   *)
(*     an exact multiple of pi/4 and every comparison of a sample's angle  *)
(*     with a wedge boundary is decided exactly.                           *)
(*   - A sample point (x, y) is the integer pair (X, Y) with x = X/Den(s)  *)
(*     and y = Y/Den(s); radii are compared through their squares.         *)
(*   - hole is a rational <<num, den>>; y_scale, border_softness and the   *)
(*     tolerance 1e-6 are the rationals YScaleNum/YScaleDen,               *)
(*     SoftNum/SoftDen and 1/EpsDen.  Radii are compared exactly, on       *)
(*     natural numbers of any size (Big: sequences of base-BigBase limbs,  *)
(*     least significant first), because TLC's integers have 32 bits.      *)
(* Text.  A character is a one-character string, a line is a sequence of   *)
(* characters, and the returned string is the sequence of its lines (the   *)
(* string split at "\n").                                                  *)
(***************************************************************************)
EXTENDS Integers, Sequences, FiniteSets, TLC

VARIABLES
    in,          \* the arguments of the call (never change)
    pc,          \* position in pie(): start, build, raster, overlay, place, assemble, done
    total,       \* float(sum(counts))
    wedges,      \* the list wedges
    cum,         \* the running angle cum
    lines,       \* the list lines (the grid rows built so far, then overlaid)
    ordered,     \* the wedges selected for labelling, in rank order
    targets,     \* the (row_idx, align) pairs
    lk,          \* number of labels already placed
    raster,      \* history: the grid as the drawing loop left it
    ret          \* the returned text, as a sequence of lines (<<>> before return)

vars == <<in, pc, total, wedges, cum, lines, ordered, targets, lk, raster, ret>>

----------------------------------------------------------------------------
(* Bounds of the model *)

MaxWedges == 3      \* longest labels / counts list
MaxRadius == 2      \* largest radius
MaxLabelMax == 3    \* largest label_max
MaxCount == 3       \* largest single count

----------------------------------------------------------------------------
(* Program constants *)

TwoPi == 16         \* 2*math.pi, in sixteenths of a turn
YScaleNum == 12     \* y_scale = 2.4 = 12/5
YScaleDen == 5
SoftNum == 9        \* border_softness = 0.45 = 9/20
SoftDen == 20
EpsDen == 1000000   \* the tolerance 1e-6 = 1/EpsDen
HoleCapNum == 99    \* the clamp 0.99 = 99/100
HoleCapDen == 100

default_chars == <<"█", "░", "▒", "▓", "▩", "▦", "▧", "▨", "▤", "▥">>

InvalidInputText ==
    <<"I","n","v","a","l","i","d"," ","i","n","p","u","t",":"," ",
      "l","a","b","e","l","s"," ","a","n","d"," ","c","o","u","n","t","s"," ",
      "m","u","s","t"," ","b","e"," ","s","a","m","e","-","l","e","n","g","t","h"," ",
      "n","o","n","-","e","m","p","t","y"," ","l","i","s","t","s",".">>

NoDataText == <<"N","o"," ","d","a","t","a",".">>

----------------------------------------------------------------------------
(* Python built-ins used by the code *)

Max(a, b) == IF a >= b THEN a ELSE b
Min(a, b) == IF a <= b THEN a ELSE b

RECURSIVE Sum(_)
Sum(s) == IF s = <<>> THEN 0 ELSE Head(s) + Sum(Tail(s))

Digit(d) == <<"0","1","2","3","4","5","6","7","8","9">>[d + 1]

RECURSIVE NatToStr(_)
NatToStr(n) == IF n < 10 THEN <<Digit(n)>>
               ELSE NatToStr(n \div 10) \o <<Digit(n % 10)>>

\* str(v) of an int, as f"{val}" formats it
IntToStr(v) == IF v < 0 THEN <<"-">> \o NatToStr(-v) ELSE NatToStr(v)

\* round(num/den) to the nearest integer, ties to even (num >= 0, den > 0)
RoundHalfEven(num, den) ==
    LET q == num \div den
        r == num % den
    IN IF 2 * r > den \/ (2 * r = den /\ q % 2 = 1) THEN q + 1 ELSE q

\* f"{frac*100:.1f}" for frac = val/tot
Pct1f(val, tot) ==
    LET t == RoundHalfEven(1000 * (IF val < 0 THEN -val ELSE val), tot)
    IN (IF val < 0 THEN <<"-">> ELSE <<>>)
       \o NatToStr(t \div 10) \o <<".">> \o <<Digit(t % 10)>>

\* s.center(width, fill) of CPython: s itself when it is at least width long
Center(s, width, fill) ==
    IF Len(s) >= width THEN s
    ELSE LET marg == width - Len(s)
             left == (marg \div 2) + (IF marg % 2 = 1 /\ width % 2 = 1 THEN 1 ELSE 0)
         IN [k \in 1..left |-> fill] \o s \o [k \in 1..(marg - left) |-> fill]

RECURSIVE Join(_, _)
\* sep.join(parts)
Join(parts, sep) ==
    IF parts = <<>> THEN <<>>
    ELSE IF Len(parts) = 1 THEN parts[1]
    ELSE parts[1] \o sep \o Join(Tail(parts), sep)

----------------------------------------------------------------------------
(* Exact arithmetic on natural numbers of any size and non-negative        *)
(* rationals: the reals the code's doubles stand for                       *)

BigBase == 1000

RECURSIVE BigOfNat(_)
BigOfNat(n) == IF n = 0 THEN <<>> ELSE <<n % BigBase>> \o BigOfNat(n \div BigBase)

RECURSIVE BigNorm(_)
\* without high-order zero limbs
BigNorm(a) == IF a # <<>> /\ a[Len(a)] = 0 THEN BigNorm(SubSeq(a, 1, Len(a) - 1)) ELSE a

RECURSIVE BigMulCarry(_, _, _)
BigMulCarry(a, m, carry) ==
    IF a = <<>> THEN BigOfNat(carry)
    ELSE LET t == Head(a) * m + carry
         IN <<t % BigBase>> \o BigMulCarry(Tail(a), m, t \div BigBase)

\* a * m for a natural number m <= 2000000
BigMulSmall(a, m) == BigNorm(BigMulCarry(a, m, 0))

RECURSIVE BigAddCarry(_, _, _)
BigAddCarry(a, b, carry) ==
    IF a = <<>> /\ b = <<>> THEN BigOfNat(carry)
    ELSE LET x == IF a = <<>> THEN 0 ELSE Head(a)
             y == IF b = <<>> THEN 0 ELSE Head(b)
             t == x + y + carry
         IN <<t % BigBase>> \o BigAddCarry(IF a = <<>> THEN a ELSE Tail(a),
                                           IF b = <<>> THEN b ELSE Tail(b),
                                           t \div BigBase)

BigAdd(a, b) == BigNorm(BigAddCarry(a, b, 0))

RECURSIVE BigSubBorrow(_, _, _)
BigSubBorrow(a, b, borrow) ==
    IF a = <<>> THEN <<>>
    ELSE LET y == IF b = <<>> THEN 0 ELSE Head(b)
             t == Head(a) - y - borrow
         IN <<t % BigBase>> \o BigSubBorrow(Tail(a), IF b = <<>> THEN b ELSE Tail(b),
                                            IF t < 0 THEN 1 ELSE 0)

\* a - b for a >= b
BigSub(a, b) == BigNorm(BigSubBorrow(a, b, 0))

RECURSIVE BigMul(_, _)
BigMul(a, b) ==
    IF a = <<>> \/ b = <<>> THEN <<>>
    ELSE BigAdd(BigMulSmall(a, Head(b)), BigNorm(<<0>> \o BigMul(a, Tail(b))))

RECURSIVE BigLessFrom(_, _, _)
\* a < b for normalised a, b of equal length, comparing limbs k, k-1, ..., 1
BigLessFrom(a, b, k) ==
    IF k = 0 THEN FALSE
    ELSE IF a[k] # b[k] THEN a[k] < b[k]
    ELSE BigLessFrom(a, b, k - 1)

BigLess(a, b) ==
    IF Len(a) # Len(b) THEN Len(a) < Len(b) ELSE BigLessFrom(a, b, Len(a))

\* the rational n/d (n >= 0, d > 0) as a pair of Big numbers
Rat(n, d) == <<BigOfNat(n), BigOfNat(d)>>
RatAdd(p, q) == <<BigAdd(BigMul(p[1], q[2]), BigMul(q[1], p[2])), BigMul(p[2], q[2])>>
RatLess(p, q) == BigLess(BigMul(p[1], q[2]), BigMul(q[1], p[2]))
\* p - q for p >= q
RatSub(p, q) == <<BigSub(BigMul(p[1], q[2]), BigMul(q[1], p[2])), BigMul(p[2], q[2])>>
RatScale(p, m) == <<BigMulSmall(p[1], m), p[2]>>

----------------------------------------------------------------------------
(* Orientation and wedge lookup *)

\* math.atan2(y, x) for y > 0, in sixteenths of a turn
UpperAngle(X, Y) ==
    IF X > 0 THEN (IF Y < X THEN 1 ELSE IF Y = X THEN 2 ELSE 3)
    ELSE IF X = 0 THEN 4
    ELSE (IF Y > -X THEN 5 ELSE IF Y = -X THEN 6 ELSE 7)

\* math.atan2(y, x), a value in (-pi, pi]
atan2(Y, X) ==
    IF Y = 0 THEN (IF X >= 0 THEN 0 ELSE TwoPi \div 2)
    ELSE IF Y > 0 THEN UpperAngle(X, Y)
    ELSE -UpperAngle(X, -Y)

\* orient with the rotation clamped at 0 instead of wrapped
orient_clamped(a, start_at_12, clockwise) ==
    LET a1 == IF a < 0 THEN a + TwoPi ELSE a
        a2 == IF start_at_12 THEN Max(0, a1 - TwoPi \div 4) ELSE a1
        a3 == IF clockwise THEN (-a2) % TwoPi ELSE a2
    IN a3

orient(a, start_at_12, clockwise) ==
    LET a1 == IF a < 0 THEN a + TwoPi ELSE a
        a2 == IF start_at_12 THEN (a1 - TwoPi \div 4) % TwoPi ELSE a1
        a3 == IF clockwise THEN (-a2) % TwoPi ELSE a2
    IN a3

RECURSIVE wedge_scan_strict(_, _, _)
\* the loop with a wedge's start excluded from its interval: a0 < ang < a1
wedge_scan_strict(ang, ws, idx) ==
    IF idx > Len(ws) THEN " "
    ELSE LET w == ws[idx]
             last == (idx = Len(ws))
         IN IF (w.a0 < ang /\ ang < w.a1)
               \/ (last /\ (ang >= w.a0 \/ ang < (w.a1 % TwoPi)))
            THEN w.ch
            ELSE wedge_scan_strict(ang, ws, idx + 1)

RECURSIVE wedge_scan(_, _, _)
\* the loop of wedge_char from wedge idx on (1-based)
wedge_scan(ang, ws, idx) ==
    IF idx > Len(ws) THEN " "
    ELSE LET w == ws[idx]
             last == (idx = Len(ws))
         IN IF (w.a0 <= ang /\ ang < w.a1)
               \/ (last /\ (ang >= w.a0 \/ ang < (w.a1 % TwoPi)))
            THEN w.ch
            ELSE wedge_scan(ang, ws, idx + 1)

wedge_char(ang, ws) == wedge_scan(ang, ws, 1)

----------------------------------------------------------------------------
(* Geometry of the samples *)

\* common denominator of the sample coordinates for samples = s
Den(s) == 2 * (s + 1) * YScaleNum

\* offsets[k-1] = k*step - 0.5 = OffNum(k, s) / (2*(s+1)), k in 1..s
OffNum(k, s) == 2 * k - (s + 1)

\* x = i + dx and y = (j + dy) / y_scale, times Den(s)
SampleX(i, kx, s) == (2 * (s + 1) * i + OffNum(kx, s)) * YScaleNum
SampleY(j, ky, s) == (2 * (s + 1) * j + OffNum(ky, s)) * YScaleDen

\* math.hypot(x, y) squared, times Den(s)^2
Hypot2(X, Y) == X * X + Y * Y

\* max(0.0, min(0.99, float(hole))) for hole = h[1]/h[2]
HoleClamp(h) ==
    IF h[1] <= 0 THEN <<0, 1>>
    ELSE IF RatLess(Rat(HoleCapNum, HoleCapDen), Rat(h[1], h[2]))
         THEN <<HoleCapNum, HoleCapDen>>
         ELSE h

\* inner = clamp(hole) * radius, a rational
Inner(hole, radius) ==
    LET c == HoleClamp(hole) IN RatScale(Rat(c[1], c[2]), radius)

Eps == Rat(1, EpsDen)
Soft == Rat(SoftNum, SoftDen)

\* the radius c >= 0 prepared for comparison with a sample's Hypot2:
\* r < c  iff  Hypot2 * den(c)^2 < Den(s)^2 * num(c)^2
SqT(c, s) ==
    [L |-> BigMul(c[2], c[2]),
     R |-> BigMulSmall(BigMulSmall(BigMul(c[1], c[1]), Den(s)), Den(s))]

RLess(N, t) == BigLess(BigMulSmall(t.L, N), t.R)
RGreater(N, t) == BigLess(t.R, BigMulSmall(t.L, N))

\* the radii the drawing loop compares r with, for one call
Geo(radius, hole, s) ==
    LET inner == Inner(hole, radius)
        rad == Rat(radius, 1)
    IN [outer    |-> SqT(RatAdd(rad, Eps), s),
        hasInner |-> RatLess(Eps, inner),
        inner    |-> IF RatLess(Eps, inner) THEN SqT(RatSub(inner, Eps), s)
                     ELSE SqT(Rat(0, 1), s),
        innerPos |-> RatLess(Rat(0, 1), inner),
        oHi      |-> SqT(RatAdd(rad, Soft), s),
        oLoNeg   |-> RatLess(rad, Soft),
        oLo      |-> IF RatLess(rad, Soft) THEN SqT(Rat(0, 1), s)
                     ELSE SqT(RatSub(rad, Soft), s),
        iHi      |-> SqT(RatAdd(inner, Soft), s),
        iLoNeg   |-> RatLess(inner, Soft),
        iLo      |-> IF RatLess(inner, Soft) THEN SqT(Rat(0, 1), s)
                     ELSE SqT(RatSub(inner, Soft), s)]

\* the discard test without the hole
Discarded_no_hole(N, g) == RGreater(N, g.outer)

\* line 136: r > radius+1e-6 or r < inner-1e-6
Discarded(N, g) ==
    RGreater(N, g.outer) \/ (g.hasInner /\ RLess(N, g.inner))

\* line 145: abs(r-radius)<border_softness or (inner>0 and abs(r-inner)<border_softness)
NearBorder(N, g) ==
    \/ (RLess(N, g.oHi) /\ (g.oLoNeg \/ RGreater(N, g.oLo)))
    \/ (g.innerPos /\ RLess(N, g.iHi) /\ (g.iLoNeg \/ RGreater(N, g.iLo)))

----------------------------------------------------------------------------
(* One grid cell *)

RECURSIVE VoteAdd(_, _)
\* votes[ch] = votes.get(ch,0)+1 on an insertion-ordered dict
VoteAdd(votes, ch) ==
    IF votes = <<>> THEN << <<ch, 1>> >>
    ELSE IF Head(votes)[1] = ch THEN << <<ch, Head(votes)[2] + 1>> >> \o Tail(votes)
    ELSE <<Head(votes)>> \o VoteAdd(Tail(votes), ch)

RECURSIVE MaxVote_last(_, _)
\* the last item with the largest count
MaxVote_last(votes, best) ==
    IF votes = <<>> THEN best
    ELSE MaxVote_last(Tail(votes), IF Head(votes)[2] >= best[2] THEN Head(votes) ELSE best)

RECURSIVE MaxVote(_, _)
\* max(votes.items(), key=lambda kv: kv[1]): the first item with the largest count
MaxVote(votes, best) ==
    IF votes = <<>> THEN best
    ELSE MaxVote(Tail(votes), IF Head(votes)[2] > best[2] THEN Head(votes) ELSE best)

\* one sample of cell (i, j): the body of the loops over dy, dx
SampleStep(acc, i, j, ky, kx, p, ws, g) ==
    LET X == SampleX(i, kx, p.samples)
        Y == SampleY(j, ky, p.samples)
        N == Hypot2(X, Y)
    IN IF Discarded(N, g) THEN acc
       ELSE [votes  |-> VoteAdd(acc.votes,
                         wedge_char(orient(atan2(Y, X), p.start_at_12, p.clockwise), ws)),
             border_vote |-> acc.border_vote
                             + (IF p.border # "" /\ NearBorder(N, g) THEN 1 ELSE 0),
             inside |-> acc.inside + 1]

RECURSIVE CellScan(_, _, _, _, _, _, _)
\* the samples n, n+1, ... of cell (i, j), dy outermost, both ascending
CellScan(acc, i, j, n, p, ws, g) ==
    IF n >= p.samples * p.samples THEN acc
    ELSE CellScan(SampleStep(acc, i, j, (n \div p.samples) + 1, (n % p.samples) + 1,
                             p, ws, g),
                  i, j, n + 1, p, ws, g)

\* the cell's character with the border test border_vote >= inside//3
Resolve_border_ge(acc, border) ==
    IF acc.inside = 0 THEN " "
    ELSE LET ch == MaxVote(Tail(acc.votes), Head(acc.votes))[1]
         IN IF border # "" /\ acc.border_vote >= acc.inside \div 3 THEN border ELSE ch

\* lines 148-158: the character of a cell from its votes
Resolve(acc, border) ==
    IF acc.inside = 0 THEN " "
    ELSE LET ch == MaxVote(Tail(acc.votes), Head(acc.votes))[1]
         IN IF border # "" /\ acc.border_vote > acc.inside \div 3 THEN border ELSE ch

CellChar(i, j, p, ws, g) ==
    Resolve(CellScan([votes |-> <<>>, border_vote |-> 0, inside |-> 0],
                     i, j, 0, p, ws, g),
            p.border)

\* the row with the column range one short: range(-radius, radius)
RowChars_short(j, p, ws, g) ==
    [c \in 1..(2 * p.radius) |-> CellChar(c - 1 - p.radius, j, p, ws, g)]

\* one iteration of the loop over j: the row of offset j
RowChars(j, p, ws, g) ==
    [c \in 1..(2 * p.radius + 1) |-> CellChar(c - 1 - p.radius, j, p, ws, g)]

----------------------------------------------------------------------------
(* Wedge build, label overlay and assembly *)

\* the validation without the length comparison
InvalidInput_no_length(labels, counts) == labels = <<>> \/ counts = <<>>

\* line 69: not labels or not counts or len(labels) != len(counts)
InvalidInput(labels, counts) ==
    labels = <<>> \/ counts = <<>> \/ Len(labels) # Len(counts)

\* the total test with < for <=
NonPositiveTotal_strict(tot) == tot < 0

\* line 72: total <= 0
NonPositiveTotal(tot) == tot <= 0

\* line 78: glyphs = (chars or default_chars)
Glyphs(chars) == IF chars = <<>> THEN default_chars ELSE chars

\* the wedge with the palette index clamped to the last glyph, not cycled
MakeWedge_clamped(i, lab, val, tot, c, glyphs) ==
    LET ang == (TwoPi * val) \div tot
    IN [lab |-> lab, a0 |-> c, a1 |-> c + ang,
        ch |-> glyphs[Min(i, Len(glyphs) - 1) + 1], frac |-> <<val, tot>>, val |-> val]

\* the wedge with the palette index off by one
MakeWedge_next_glyph(i, lab, val, tot, c, glyphs) ==
    LET ang == (TwoPi * val) \div tot
    IN [lab |-> lab, a0 |-> c, a1 |-> c + ang,
        ch |-> glyphs[((i + 1) % Len(glyphs)) + 1], frac |-> <<val, tot>>, val |-> val]

\* lines 85-87: the wedge of item i (0-based) starting at angle c
\* (frac is kept as the exact pair val/tot; ang = 2*pi*frac)
MakeWedge(i, lab, val, tot, c, glyphs) ==
    LET ang == (TwoPi * val) \div tot
    IN [lab |-> lab, a0 |-> c, a1 |-> c + ang,
        ch |-> glyphs[(i % Len(glyphs)) + 1], frac |-> <<val, tot>>, val |-> val]

\* lines 162-166
fmt(lbl, frac, val, label_mode) ==
    IF label_mode = "value" THEN lbl \o <<" ">> \o IntToStr(val)
    ELSE IF label_mode = "both"
         THEN lbl \o <<" ">> \o IntToStr(val) \o <<" ", "(">>
              \o Pct1f(frac[1], frac[2]) \o <<"%", ")">>
    ELSE lbl \o <<" ">> \o Pct1f(frac[1], frac[2]) \o <<"%">>

RECURSIVE InsertDesc(_, _)
\* w put after every element whose fraction is at least w's
InsertDesc(sorted, w) ==
    IF sorted = <<>> THEN <<w>>
    ELSE IF Head(sorted).frac[1] >= w.frac[1] THEN <<Head(sorted)>> \o InsertDesc(Tail(sorted), w)
    ELSE <<w>> \o sorted

RECURSIVE SortedDesc(_, _)
\* sorted(wedges, key=lambda w:w[4], reverse=True): stable, largest fraction first
SortedDesc(ws, acc) ==
    IF ws = <<>> THEN acc ELSE SortedDesc(Tail(ws), InsertDesc(acc, Head(ws)))

\* the first label_max wedges in input order, unsorted
Ordered_input_order(ws, label_max) == SubSeq(ws, 1, Min(label_max, Len(ws)))

\* line 171: sorted(...)[:label_max]
Ordered(ws, label_max) ==
    LET srt == SortedDesc(ws, <<>>) IN SubSeq(srt, 1, Min(label_max, Len(srt)))

\* lines 177-181: the target of rank k (0-based) in a grid of h rows
Target(k, h) ==
    LET mid == h \div 2
        offset == ((k \div 2) + 1) * (IF k >= 2 THEN 2 ELSE 1)
        row_idx == IF k % 2 = 0 THEN mid - offset ELSE mid + offset
    IN [row_idx |-> Max(0, Min(h - 1, row_idx)),
        align |-> IF k % 2 = 0 THEN "left" ELSE "right"]

\* line 188: index (0-based) of the first non-blank character, -1 for None
First(row) ==
    IF \A k \in 1..Len(row) : row[k] = " " THEN -1
    ELSE (CHOOSE k \in 1..Len(row) : row[k] # " " /\ \A m \in 1..(k - 1) : row[m] = " ") - 1

\* line 189: len(row)-1 - (index of the first non-blank of reversed(row), default 0)
Last(row) ==
    IF \A k \in 1..Len(row) : row[k] = " " THEN Len(row) - 1
    ELSE (CHOOSE k \in 1..Len(row) : row[k] # " " /\ \A m \in (k + 1)..Len(row) : row[m] = " ") - 1

\* place without the one-column margin (pad = 0)
place_no_margin(row, text, align) ==
    LET first == First(row)
        last == Last(row)
    IN IF first = -1 \/ last <= first THEN row
       ELSE LET left_limit == first
                right_limit == last
                avail == right_limit - left_limit + 1
                padded == <<" ">> \o text \o <<" ">>
                txt == IF Len(padded) > avail THEN SubSeq(padded, 1, Max(0, avail))
                       ELSE padded
                start == IF align = "left" THEN left_limit
                         ELSE IF align = "right" THEN right_limit - Len(txt) + 1
                         ELSE left_limit + ((avail - Len(txt)) \div 2)
            IN [col1 \in 1..Len(row) |->
                    LET col == col1 - 1
                    IN IF start <= col /\ col < start + Len(txt)
                       THEN txt[col - start + 1] ELSE row[col1]]

\* lines 184-220: the row after place(row_idx, text, align)
place(row, text, align) ==
    LET first == First(row)
        last == Last(row)
    IN IF first = -1 \/ last <= first THEN row
       ELSE LET left_limit == first + 1
                right_limit == last - 1
                avail == right_limit - left_limit + 1
                padded == <<" ">> \o text \o <<" ">>
                txt == IF Len(padded) > avail THEN SubSeq(padded, 1, Max(0, avail))
                       ELSE padded
                start == IF align = "left" THEN left_limit
                         ELSE IF align = "right" THEN right_limit - Len(txt) + 1
                         ELSE left_limit + ((avail - Len(txt)) \div 2)
            IN [col1 \in 1..Len(row) |->
                    LET col == col1 - 1
                    IN IF start <= col /\ col < start + Len(txt)
                       THEN txt[col - start + 1] ELSE row[col1]]

\* line 231: one legend entry
LegendPart(w) ==
    <<w.ch, " ">> \o w.lab \o <<" ">> \o IntToStr(w.val) \o <<" ", "(">>
    \o Pct1f(w.frac[1], w.frac[2]) \o <<"%", ")">>

\* lines 228-232
LegendLines(ws, show_legend) ==
    IF show_legend
    THEN << Join([k \in 1..Len(ws) |-> LegendPart(ws[k])], <<" ", "|", " ">>) >>
    ELSE <<>>

\* the title without the empty line beneath it
TitleLines_no_blank(title, radius) ==
    IF title # <<>> THEN << Center(title, radius * 2 + 20, "=") >> ELSE <<>>

\* lines 236-239
TitleLines(title, radius) ==
    IF title # <<>> THEN << Center(title, radius * 2 + 20, "="), <<>> >> ELSE <<>>

----------------------------------------------------------------------------
(* The arguments of a call *)

Labels(n) == [k \in 1..n |-> <<"L">> \o NatToStr(k)]

RECURSIVE SeqsOfLen(_, _)
SeqsOfLen(S, n) ==
    IF n = 0 THEN {<<>>}
    ELSE {Append(q, x) : q \in SeqsOfLen(S, n - 1), x \in S}

\* every counts list of at most n entries
CountSeqs(n) == UNION {SeqsOfLen(-1..MaxCount, m) : m \in 0..n}

\* the lists pie() accepts, with a sum that divides 8: every wedge boundary
\* is then an exact multiple of pi/4
GoodCounts(n) == {cs \in CountSeqs(n) : Sum(cs) \in {1, 2, 4, 8}}

\* hole: 0, 0.5, 2.0 (above the clamp) and 5/12 + 1.25e-7
Holes == {<<0, 1>>, <<1, 2>>, <<2, 1>>, <<10000003, 24000000>>}
SampleCounts == {1, 2}
LongTitle == [k \in 1..(2 * MaxRadius + 21) |-> "t"]
Titles == {<<>>, <<"T", "i">>, LongTitle}
Palettes == {<<>>, <<"x", "y">>}
LabelModes == {"percent", "value", "both"}

Defaults ==
    [labels |-> <<>>, counts |-> <<>>, radius |-> 1, hole |-> <<0, 1>>,
     start_at_12 |-> TRUE, clockwise |-> TRUE, samples |-> 2, border |-> "·",
     chars |-> <<>>, show_legend |-> TRUE, label_mode |-> "percent",
     label_max |-> MaxLabelMax, title |-> <<>>]

\* calls that pie() rejects: a length mismatch, an empty list, a sum <= 0
ErrorInputs ==
    {[Defaults EXCEPT !.labels = Labels(nl), !.counts = cs] :
        nl \in 0..MaxWedges,
        cs \in {c \in CountSeqs(MaxWedges) : Sum(c) <= 0 \/ Sum(c) \in {1, 2, 4, 8}}}
    \ {[Defaults EXCEPT !.labels = Labels(Len(cs)), !.counts = cs] :
        cs \in GoodCounts(MaxWedges)}

\* calls that vary the orientation
AngleInputs ==
    {[Defaults EXCEPT !.labels = Labels(Len(cs)), !.counts = cs, !.radius = r,
                      !.start_at_12 = s12, !.clockwise = cw, !.samples = sm] :
        cs \in GoodCounts(MaxWedges), r \in 1..MaxRadius,
        s12 \in BOOLEAN, cw \in BOOLEAN, sm \in SampleCounts}

\* calls that vary the ring
RadialInputs ==
    {[Defaults EXCEPT !.labels = Labels(Len(cs)), !.counts = cs, !.radius = r,
                      !.hole = h, !.samples = sm, !.border = b] :
        cs \in GoodCounts(2), r \in 1..MaxRadius, h \in Holes,
        sm \in SampleCounts, b \in {"", "·"}}

\* calls that vary the labels
LabelInputs ==
    {[Defaults EXCEPT !.labels = Labels(Len(cs)), !.counts = cs, !.radius = r,
                      !.label_mode = lm, !.label_max = lx] :
        cs \in GoodCounts(MaxWedges), r \in 1..MaxRadius,
        lm \in LabelModes, lx \in 0..MaxLabelMax}

\* calls that vary the palette, the legend and the title
AssemblyInputs ==
    {[Defaults EXCEPT !.labels = Labels(Len(cs)), !.counts = cs, !.radius = r,
                      !.chars = ch, !.show_legend = sl, !.title = t] :
        cs \in GoodCounts(2), r \in 1..MaxRadius,
        ch \in Palettes, sl \in BOOLEAN, t \in Titles}

\* calls with more wedges than the palette has glyphs
PaletteInputs ==
    {[Defaults EXCEPT !.labels = Labels(Len(cs)), !.counts = cs, !.chars = ch] :
        cs \in GoodCounts(MaxWedges), ch \in Palettes}

\* calls whose cells have few border votes among many inside samples
\* (hole 0.25 and 3x3 samples give cells with 3 border votes out of 9)
BorderInputs ==
    {[Defaults EXCEPT !.labels = Labels(Len(cs)), !.counts = cs, !.radius = r,
                      !.hole = h, !.samples = sm, !.border = b] :
        cs \in GoodCounts(2), r \in 1..MaxRadius, h \in {<<0, 1>>, <<1, 4>>},
        sm \in {2, 3}, b \in {"", "·"}}

Inputs ==
    ErrorInputs \cup AngleInputs \cup RadialInputs \cup LabelInputs \cup AssemblyInputs
        \cup PaletteInputs \cup BorderInputs

----------------------------------------------------------------------------
(* The call, stage by stage *)

Init ==
    /\ in \in Inputs
    /\ pc = "start"
    /\ total = 0
    /\ wedges = <<>>
    /\ cum = 0
    /\ lines = <<>>
    /\ ordered = <<>>
    /\ targets = <<>>
    /\ lk = 0
    /\ raster = <<>>
    /\ ret = <<>>

\* lines 68-73: input validation
Validate ==
    /\ pc = "start"
    /\ IF InvalidInput(in.labels, in.counts)
       THEN /\ ret' = <<InvalidInputText>>
            /\ pc' = "done"
            /\ total' = total
       ELSE /\ total' = Sum(in.counts)
            /\ IF NonPositiveTotal(Sum(in.counts))
               THEN ret' = <<NoDataText>> /\ pc' = "done"
               ELSE ret' = ret /\ pc' = "build"
    /\ UNCHANGED <<in, wedges, cum, lines, ordered, targets, lk, raster>>

\* lines 84-88: one iteration of the wedge loop
BuildWedge ==
    /\ pc = "build"
    /\ LET i == Len(wedges)
           w == MakeWedge(i, in.labels[i + 1], in.counts[i + 1], total, cum,
                          Glyphs(in.chars))
       IN /\ wedges' = Append(wedges, w)
          /\ cum' = w.a1
          /\ pc' = IF i + 1 = Len(in.labels) THEN "raster" ELSE "build"
    /\ UNCHANGED <<in, total, lines, ordered, targets, lk, raster, ret>>

\* lines 121-159: one iteration of the loop over j
RasterRow ==
    /\ pc = "raster"
    /\ LET j == Len(lines) - in.radius
           row == RowChars(j, in, wedges, Geo(in.radius, in.hole, in.samples))
       IN /\ lines' = Append(lines, row)
          /\ IF j = in.radius
             THEN pc' = "overlay" /\ raster' = Append(lines, row)
             ELSE pc' = "raster" /\ raster' = raster
    /\ UNCHANGED <<in, total, wedges, cum, ordered, targets, lk, ret>>

\* lines 170-181: the wedges to label and their targets
SetupLabels ==
    /\ pc = "overlay"
    /\ IF in.label_max # 0 /\ Len(wedges) > 0
       THEN /\ ordered' = Ordered(wedges, in.label_max)
            /\ targets' = [k \in 1..Len(Ordered(wedges, in.label_max)) |->
                               Target(k - 1, Len(lines))]
            /\ pc' = "place"
       ELSE /\ UNCHANGED <<ordered, targets>>
            /\ pc' = "assemble"
    /\ UNCHANGED <<in, total, wedges, cum, lines, lk, raster, ret>>

\* the placement loop run from the last rank to the first
PlaceLabel_reversed ==
    /\ pc = "place"
    /\ LET w == ordered[Len(ordered) - lk]
           t == targets[Len(ordered) - lk]
       IN lines' = [lines EXCEPT ![t.row_idx + 1] =
                       place(lines[t.row_idx + 1],
                             fmt(w.lab, w.frac, w.val, in.label_mode), t.align)]
    /\ lk' = lk + 1
    /\ pc' = IF lk + 1 = Len(ordered) THEN "assemble" ELSE "place"
    /\ UNCHANGED <<in, total, wedges, cum, ordered, targets, raster, ret>>

\* lines 223-225: one iteration of the placement loop
PlaceLabel ==
    /\ pc = "place"
    /\ LET w == ordered[lk + 1]
           t == targets[lk + 1]
       IN lines' = [lines EXCEPT ![t.row_idx + 1] =
                       place(lines[t.row_idx + 1],
                             fmt(w.lab, w.frac, w.val, in.label_mode), t.align)]
    /\ lk' = lk + 1
    /\ pc' = IF lk + 1 = Len(ordered) THEN "assemble" ELSE "place"
    /\ UNCHANGED <<in, total, wedges, cum, ordered, targets, raster, ret>>

\* lines 228-243: legend, title and the returned text
Assemble ==
    /\ pc = "assemble"
    /\ ret' = TitleLines(in.title, in.radius) \o lines
               \o LegendLines(wedges, in.show_legend)
    /\ pc' = "done"
    /\ UNCHANGED <<in, total, wedges, cum, lines, ordered, targets, lk, raster>>

Next ==
    \/ Validate
    \/ BuildWedge
    \/ RasterRow
    \/ SetupLabels
    \/ PlaceLabel
    \/ Assemble

Spec == Init /\ [][Next]_vars

----------------------------------------------------------------------------
(* Properties *)

BadShape == in.labels = <<>> \/ in.counts = <<>> \/ Len(in.labels) # Len(in.counts)

\* a call that passes both validations
ValidCall == ~BadShape /\ Sum(in.counts) > 0

\* the stages of a valid call after the drawing loop has finished
Rastered == ValidCall /\ pc \in {"overlay", "place", "assemble", "done"}

\* C1: a call with an empty labels list, an empty counts list or lists of
\* different lengths returns the fixed text "Invalid input: ..." and nothing
\* else happens: no wedge is built, no grid row, legend or title is produced.
C1_EmptyInput ==
    BadShape =>
        /\ pc \in {"start", "done"}
        /\ pc = "done" => ret = <<InvalidInputText>>
        /\ wedges = <<>> /\ lines = <<>> /\ raster = <<>>

C1_Witness ==
    /\ pc = "done"
    /\ in.labels # <<>> /\ in.counts # <<>> /\ Len(in.labels) # Len(in.counts)
    /\ Sum(in.counts) > 0
    /\ ret = <<InvalidInputText>>

\* C2: a call with non-empty lists of equal length whose sum is <= 0 returns
\* the text "No data." before any wedge or grid row is built; that text differs
\* from the EmptyInput text and from the text of every chart.
C2_NoData ==
    /\ (~BadShape /\ Sum(in.counts) <= 0) =>
          /\ pc \in {"start", "done"}
          /\ pc = "done" => ret = <<NoDataText>>
          /\ wedges = <<>> /\ lines = <<>> /\ raster = <<>>
    /\ NoDataText # InvalidInputText
    /\ (pc = "done" /\ ValidCall) =>
          /\ ret # <<NoDataText>> /\ ret # <<InvalidInputText>>
          /\ Len(ret) >= 2 * in.radius + 1

C2_Witness ==
    pc = "done" /\ in.counts = <<0, 0>> /\ Len(in.labels) = 2 /\ ret = <<NoDataText>>

\* C3: for a valid call the grid the drawing loop leaves has 2*radius+1 rows
\* of 2*radius+1 cells, each cell one character (rows built so far have that
\* width too).
C3_GridSize ==
    /\ \A k \in 1..Len(lines) :
          /\ Len(lines[k]) = 2 * in.radius + 1
          /\ \A c \in 1..Len(lines[k]) : Len(lines[k][c]) = 1
    /\ Rastered =>
          /\ Len(raster) = 2 * in.radius + 1
          /\ \A k \in 1..Len(raster) :
                /\ Len(raster[k]) = 2 * in.radius + 1
                /\ \A c \in 1..Len(raster[k]) : Len(raster[k][c]) = 1

C3_Witness ==
    /\ pc = "overlay" /\ in.radius = MaxRadius /\ Len(in.counts) = 2
    /\ Len(raster) = 2 * MaxRadius + 1
    /\ \E k \in 1..Len(raster) : \E c \in 1..Len(raster[k]) : raster[k][c] = wedges[2].ch

\* the wedges chain from 0 and, once all are built, end at 2*pi
Chained ==
    /\ \A k \in 1..Len(wedges) :
          wedges[k].a0 = (IF k = 1 THEN 0 ELSE wedges[k - 1].a1)
    /\ (pc # "build" /\ wedges # <<>>) => wedges[Len(wedges)].a1 = TwoPi

\* C4 as stated: for every valid call the wedges, in input order, partition
\* [0, 2*pi): the first starts at 0, each starts where the one before ends,
\* each has angleStart <= angleEnd, the last ends at 2*pi.
C4_Partition ==
    /\ Len(wedges) <= Len(in.labels)
    /\ Chained
    /\ \A k \in 1..Len(wedges) : wedges[k].lab = in.labels[k] /\ wedges[k].a0 <= wedges[k].a1

\* what the code guarantees: the chaining always, angleStart <= angleEnd
\* only in calls none of whose counts is negative.
C4_Observed ==
    /\ Len(wedges) <= Len(in.labels)
    /\ Chained
    /\ \A k \in 1..Len(wedges) : wedges[k].lab = in.labels[k]
    /\ (\A k \in 1..Len(in.counts) : in.counts[k] >= 0) =>
          \A k \in 1..Len(wedges) : wedges[k].a0 <= wedges[k].a1

\* the valid call counts = [-1, 3]: the first wedge runs from 0 back to -pi
C4_Witness ==
    /\ pc = "raster" /\ in.counts = <<-1, 3>>
    /\ wedges[1].a0 = 0 /\ wedges[1].a1 = -(TwoPi \div 2)
    /\ wedges[2].a0 = -(TwoPi \div 2) /\ wedges[2].a1 = TwoPi

\* C5: for the flags of the call, orient maps [0, 2*pi) into [0, 2*pi) and
\* maps no two distinct angles to the same angle.
C5_OrientBijection ==
    LET o(a) == orient(a, in.start_at_12, in.clockwise)
    IN /\ \A a \in 0..(TwoPi - 1) : o(a) \in 0..(TwoPi - 1)
       /\ \A a, b \in 0..(TwoPi - 1) : o(a) = o(b) => a = b
       /\ \A c \in 0..(TwoPi - 1) : \E a \in 0..(TwoPi - 1) : o(a) = c

C5_Witness ==
    /\ Rastered /\ in.start_at_12 /\ ~in.clockwise /\ Len(in.counts) = 2
    /\ orient(1, in.start_at_12, in.clockwise) = 13
    /\ \E k \in 1..Len(raster) : \E c \in 1..Len(raster[k]) : raster[k][c] = wedges[1].ch

\* the cells of the grid, as (row, column) positions counted from 1
Cells == (1..(2 * in.radius + 1)) \X (1..(2 * in.radius + 1))

\* Hypot2 of sample n (0-based, in scan order) of the cell at row k, column c
SampleR2(k, c, n) ==
    Hypot2(SampleX(c - 1 - in.radius, (n % in.samples) + 1, in.samples),
           SampleY(k - 1 - in.radius, (n \div in.samples) + 1, in.samples))

SampleIds == 0..(in.samples * in.samples - 1)

\* number of samples of a cell that the drawing loop counts as inside
InsideCount(k, c) ==
    CellScan([votes |-> <<>>, border_vote |-> 0, inside |-> 0],
             c - 1 - in.radius, k - 1 - in.radius, 0, in, wedges,
             Geo(in.radius, in.hole, in.samples)).inside

\* C6 as stated: with start_at_12 and clockwise, display angle 0 is the
\* direction of the top rows (row offset j < 0) and the angle grows clockwise
\* on screen, so for counts [1, 3] the first wedge lies in the upper-right
\* quadrant: every cell showing its glyph has j <= 0 and i >= 0, and some cell
\* with j < 0 and i > 0 shows it.
C6_StartsAtTopClockwise ==
    /\ (in.start_at_12 /\ in.clockwise) =>
          /\ orient(atan2(-1, 0), in.start_at_12, in.clockwise) = 0
          /\ orient(atan2(0, 1), in.start_at_12, in.clockwise) = TwoPi \div 4
    /\ (Rastered /\ in.start_at_12 /\ in.clockwise /\ in.counts = <<1, 3>>
            /\ in.hole = <<0, 1>> /\ in.chars = <<>>) =>
          /\ \A p \in Cells :
                raster[p[1]][p[2]] = wedges[1].ch =>
                    (p[1] - 1 - in.radius <= 0 /\ p[2] - 1 - in.radius >= 0)
          /\ \E p \in Cells :
                /\ raster[p[1]][p[2]] = wedges[1].ch
                /\ p[1] - 1 - in.radius < 0 /\ p[2] - 1 - in.radius > 0

\* what the code draws instead: display angle 0 is the direction of the
\* bottom rows and the angle grows from the bottom towards the right, so for
\* counts [1, 3] the first wedge lies in the lower-right quadrant.
C6_Observed ==
    /\ (in.start_at_12 /\ in.clockwise) =>
          /\ orient(atan2(1, 0), in.start_at_12, in.clockwise) = 0
          /\ orient(atan2(0, 1), in.start_at_12, in.clockwise) = TwoPi \div 4
          /\ orient(atan2(-1, 0), in.start_at_12, in.clockwise) = TwoPi \div 2
    /\ (Rastered /\ in.start_at_12 /\ in.clockwise /\ in.counts = <<1, 3>>
            /\ in.hole = <<0, 1>> /\ in.chars = <<>>) =>
          \A p \in Cells :
                raster[p[1]][p[2]] = wedges[1].ch =>
                    (p[1] - 1 - in.radius >= 0 /\ p[2] - 1 - in.radius >= 0)

\* the call counts = [1, 3] with default flags: the first wedge's glyph shows
\* below the centre row and nowhere above it
C6_Witness ==
    /\ Rastered /\ in.start_at_12 /\ in.clockwise /\ in.counts = <<1, 3>>
    /\ in.hole = <<0, 1>> /\ in.chars = <<>> /\ in.radius = MaxRadius /\ in.samples = 2
    /\ \E p \in Cells :
          /\ raster[p[1]][p[2]] = wedges[1].ch
          /\ p[1] - 1 - in.radius > 0 /\ p[2] - 1 - in.radius > 0
    /\ \A p \in Cells :
          raster[p[1]][p[2]] = wedges[1].ch => p[1] - 1 - in.radius >= 0

\* C7 as stated: for a single wedge and default options every non-blank cell
\* of the returned rows holds the wedge's glyph, the first palette glyph.
C7_SingleWedge_AsStated ==
    (pc = "done" /\ ValidCall /\ Len(in.counts) = 1 /\ in.border = "·"
        /\ in.hole = <<0, 1>> /\ in.chars = <<>> /\ in.title = <<>>
        /\ in.start_at_12 /\ in.clockwise /\ in.label_mode = "percent"
        /\ in.label_max = MaxLabelMax /\ in.show_legend) =>
        \A p \in Cells : lines[p[1]][p[2]] \in {" ", default_chars[1]}

\* C7 amended: for a single wedge, after rasterization every cell with a
\* sample inside the disk (or ring) holds the first palette glyph or, when a
\* border glyph is configured, the border glyph, every other cell is blank,
\* and the returned rows differ from that grid only in the label's row, the
\* row above the centre row.
C7_SingleWedge ==
    (Rastered /\ Len(in.counts) = 1) =>
        /\ \A p \in Cells :
              IF InsideCount(p[1], p[2]) = 0
              THEN raster[p[1]][p[2]] = " "
              ELSE raster[p[1]][p[2]] \in
                      {Glyphs(in.chars)[1]} \cup (IF in.border # "" THEN {in.border} ELSE {})
        /\ \A p \in Cells :
              lines[p[1]][p[2]] # raster[p[1]][p[2]] => p[1] = Len(raster) \div 2

C7_Witness ==
    /\ pc = "done" /\ Len(in.counts) = 1 /\ in.radius = MaxRadius /\ in.border = "·"
    /\ \E p \in Cells : raster[p[1]][p[2]] = "·"
    /\ \E p \in Cells : raster[p[1]][p[2]] = default_chars[1]
    /\ \E p \in Cells : lines[p[1]][p[2]] \notin {" ", "·", default_chars[1]}

\* C8: the label overlay changes no character outside the interior of a
\* row's rendered span: with first and last the first and last non-blank
\* columns of the row after rasterization, every column < first+1 or > last-1
\* is as the drawing loop left it, blank rows are unchanged, and every row
\* keeps its length.
C8_OverlayFrame ==
    Rastered =>
        /\ Len(lines) = Len(raster)
        /\ \A k \in 1..Len(raster) :
              /\ Len(lines[k]) = Len(raster[k])
              /\ (\A c \in 1..Len(raster[k]) : raster[k][c] = " ") => lines[k] = raster[k]
              /\ \A c \in 1..Len(raster[k]) :
                    (c - 1 < First(raster[k]) + 1 \/ c - 1 > Last(raster[k]) - 1)
                        => lines[k][c] = raster[k][c]

C8_Witness ==
    /\ pc = "assemble" /\ lk = 3
    /\ targets[1].row_idx = targets[3].row_idx
    /\ lines[targets[1].row_idx + 1] # raster[targets[1].row_idx + 1]
    /\ lines[targets[2].row_idx + 1] # raster[targets[2].row_idx + 1]

\* C9 as stated: if hole > 0, every cell all of whose samples have
\* r < inner is blank after rasterization.
C9_HoleBlank_AsStated ==
    (Rastered /\ in.hole[1] > 0) =>
        LET t == SqT(Inner(in.hole, in.radius), in.samples)
        IN \A p \in Cells :
              (\A n \in SampleIds : RLess(SampleR2(p[1], p[2], n), t))
                  => raster[p[1]][p[2]] = " "

\* C9 amended: if hole > 0, every cell all of whose samples have
\* r < inner - 1e-6 is blank after rasterization.
C9_HoleBlank ==
    (Rastered /\ in.hole[1] > 0 /\ RatLess(Eps, Inner(in.hole, in.radius))) =>
        LET t == SqT(RatSub(Inner(in.hole, in.radius), Eps), in.samples)
        IN \A p \in Cells :
              (\A n \in SampleIds : RLess(SampleR2(p[1], p[2], n), t))
                  => raster[p[1]][p[2]] = " "

C9_Witness ==
    /\ Rastered /\ in.hole = <<1, 2>> /\ in.radius = MaxRadius /\ in.samples = 2
    /\ raster[in.radius + 1][in.radius + 1] = " "
    /\ \A n \in SampleIds :
          RLess(SampleR2(in.radius + 1, in.radius + 1, n),
                SqT(RatSub(Inner(in.hole, in.radius), Eps), in.samples))
    /\ \E p \in Cells : raster[p[1]][p[2]] = wedges[1].ch

\* the rows of the returned text that follow the title lines
Body(off) == SubSeq(ret, off + 1, off + 2 * in.radius + 1)

\* the body rows are the grid rows, top (j = -radius) to bottom, and the
\* legend, if any, is one line: one entry per wedge, in input order,
\* joined by " | "
BodyAndLegend(off) ==
    /\ Len(ret) = off + 2 * in.radius + 1 + (IF in.show_legend THEN 1 ELSE 0)
    /\ Body(off) = lines
    /\ \A k \in 1..(2 * in.radius + 1) :
          raster[k] = RowChars(k - 1 - in.radius, in, wedges,
                               Geo(in.radius, in.hole, in.samples))
    /\ in.show_legend =>
          ret[Len(ret)] = Join([k \in 1..Len(in.labels) |-> LegendPart(wedges[k])],
                               <<" ", "|", " ">>)
    /\ \A k \in 1..Len(in.labels) :
          wedges[k].lab = in.labels[k] /\ wedges[k].val = in.counts[k]

\* C10 as stated: the returned text is, in order, a title line of width
\* 2*radius+20 and an empty line iff a title is given, the 2*radius+1 grid
\* rows from top to bottom, and one legend line iff show_legend; no other line.
C10_Assembly_AsStated ==
    (pc = "done" /\ ValidCall) =>
        IF in.title # <<>>
        THEN /\ Len(ret[1]) = 2 * in.radius + 20
             /\ ret[2] = <<>>
             /\ BodyAndLegend(2)
        ELSE BodyAndLegend(0)

\* C10 amended: the same, with a title line that is the title centred
\* between "=" to width 2*radius+20, or the title itself when it is at least
\* that long.
C10_Assembly ==
    (pc = "done" /\ ValidCall) =>
        IF in.title # <<>>
        THEN /\ Len(ret[1]) = Max(Len(in.title), 2 * in.radius + 20)
             /\ \E a \in 0..(Len(ret[1]) - Len(in.title)) :
                   /\ SubSeq(ret[1], a + 1, a + Len(in.title)) = in.title
                   /\ \A c \in 1..Len(ret[1]) :
                         (c <= a \/ c > a + Len(in.title)) => ret[1][c] = "="
                   /\ a - (Len(ret[1]) - Len(in.title) - a) \in {-1, 0, 1}
             /\ ret[2] = <<>>
             /\ BodyAndLegend(2)
        ELSE BodyAndLegend(0)

C10_Witness ==
    /\ pc = "done" /\ in.title = <<"T", "i">> /\ in.show_legend
    /\ Len(in.counts) = 2 /\ in.radius = MaxRadius
    /\ Len(ret) = 2 * MaxRadius + 4
    /\ Len(ret[1]) = 2 * MaxRadius + 20

\* the stages of a valid call after the wedge loop has finished
Built == ValidCall /\ pc \notin {"start", "build"}

\* C11: the glyph of wedge i (0-based, input order) is palette[i mod
\* len(palette)], the palette being chars if given and the ten default
\* symbols otherwise; wedges i and i+len(palette) share a glyph, and every
\* wedge is built whatever the number of wedges (no index error).
C11_PaletteCycle ==
    LET palette == IF in.chars # <<>> THEN in.chars ELSE default_chars
    IN /\ Len(default_chars) = 10
       /\ \A k \in 1..Len(wedges) :
             wedges[k].ch = palette[((k - 1) % Len(palette)) + 1]
       /\ \A k, m \in 1..Len(wedges) :
             m = k + Len(palette) => wedges[m].ch = wedges[k].ch
       /\ Built => Len(wedges) = Len(in.labels)

C11_Witness ==
    /\ Built /\ in.chars = <<"x", "y">> /\ Len(wedges) = 3
    /\ wedges[1].ch = "x" /\ wedges[2].ch = "y" /\ wedges[3].ch = "x"

\* the samples of the cell at row k, column c that the drawing loop keeps
InsideSamples(k, c, g) == {n \in SampleIds : ~Discarded(SampleR2(k, c, n), g)}

\* those of them within border_softness of the outer or the inner radius
BorderSamples(k, c, g) == {n \in InsideSamples(k, c, g) : NearBorder(SampleR2(k, c, n), g)}

\* the glyphs of the wedges
WedgeGlyphs == {wedges[k].ch : k \in 1..Len(wedges)}

\* C12: a cell with at least one inside sample shows the border glyph, if
\* one is configured, exactly when its border votes exceed a third of its
\* inside samples (3 * border votes > inside samples), whatever the wedge
\* votes; with no border glyph configured it shows a wedge glyph.
C12_BorderRule ==
    Rastered =>
        LET g == Geo(in.radius, in.hole, in.samples)
        IN \A p \in Cells :
              LET ins == Cardinality(InsideSamples(p[1], p[2], g))
                  bv == Cardinality(BorderSamples(p[1], p[2], g))
                  cell == raster[p[1]][p[2]]
              IN ins > 0 =>
                    IF in.border # ""
                    THEN /\ in.border \notin WedgeGlyphs
                         /\ (cell = in.border) <=> (3 * bv > ins)
                         /\ cell # in.border => cell \in WedgeGlyphs
                    ELSE cell \in WedgeGlyphs /\ cell # ""

\* a cell with 3 border votes out of 9 inside samples shows a wedge glyph,
\* a cell with 1 out of 4 does, and some cell with fewer border votes than
\* inside samples shows the border glyph
C12_Witness ==
    /\ Rastered /\ in.border = "·" /\ in.samples = 3 /\ in.hole = <<1, 4>>
    /\ LET g == Geo(in.radius, in.hole, in.samples)
       IN /\ \E p \in Cells :
                /\ Cardinality(BorderSamples(p[1], p[2], g)) = 3
                /\ Cardinality(InsideSamples(p[1], p[2], g)) = 9
                /\ raster[p[1]][p[2]] \in WedgeGlyphs
          /\ \E p \in Cells :
                /\ raster[p[1]][p[2]] = "·"
                /\ Cardinality(BorderSamples(p[1], p[2], g))
                       < Cardinality(InsideSamples(p[1], p[2], g))

\* a ring drawn with the border glyph switched off
C12_WitnessNoBorder ==
    /\ Rastered /\ in.border = "" /\ in.hole = <<1, 2>>
    /\ \E p \in Cells : raster[p[1]][p[2]] \in WedgeGlyphs

\* the glyph that sample n of the cell at row k, column c votes for
SampleGlyph(k, c, n) ==
    wedge_char(orient(atan2(SampleY(k - 1 - in.radius, (n \div in.samples) + 1, in.samples),
                            SampleX(c - 1 - in.radius, (n % in.samples) + 1, in.samples)),
                      in.start_at_12, in.clockwise),
               wedges)

\* the inside samples of the cell that vote for glyph gl
VotesFor(k, c, g, gl) == {n \in InsideSamples(k, c, g) : SampleGlyph(k, c, n) = gl}

\* the cell is resolved neither to blank nor to the border glyph
FillCell(k, c, g) ==
    /\ InsideSamples(k, c, g) # {}
    /\ ~(in.border # "" /\ 3 * Cardinality(BorderSamples(k, c, g))
                              > Cardinality(InsideSamples(k, c, g)))

\* C13: a cell resolved neither to blank nor to border shows the glyph with
\* the most votes among its inside samples; among glyphs with equally many
\* votes it shows the one whose first vote comes first in scan order (sample
\* n = ky * samples + kx: dy outermost, dx innermost, both ascending).
C13_MajorityFirst ==
    Rastered =>
        LET g == Geo(in.radius, in.hole, in.samples)
        IN \A p \in Cells :
              FillCell(p[1], p[2], g) =>
                 LET win == VotesFor(p[1], p[2], g, raster[p[1]][p[2]])
                 IN /\ win # {}
                    /\ \A n \in InsideSamples(p[1], p[2], g) :
                          LET other == VotesFor(p[1], p[2], g, SampleGlyph(p[1], p[2], n))
                          IN /\ Cardinality(other) <= Cardinality(win)
                             /\ (Cardinality(other) = Cardinality(win) /\ n \notin win)
                                   => \E m \in win : m < n

\* a tie that the second wedge wins because its first vote comes first
C13_Witness ==
    /\ Rastered /\ Len(wedges) >= 2 /\ wedges[1].ch # wedges[2].ch
    /\ LET g == Geo(in.radius, in.hole, in.samples)
       IN \E p \in Cells :
             /\ FillCell(p[1], p[2], g)
             /\ raster[p[1]][p[2]] = wedges[2].ch
             /\ Cardinality(VotesFor(p[1], p[2], g, wedges[1].ch))
                   = Cardinality(VotesFor(p[1], p[2], g, wedges[2].ch))
             /\ Cardinality(VotesFor(p[1], p[2], g, wedges[1].ch)) >= 1

\* the stages of a valid call after the label targets have been computed
Targeted == ValidCall /\ pc \in {"place", "assemble", "done"}

C14_WitnessTruncated ==
    /\ pc = "place" /\ in.counts = <<0, 1, 3>> /\ in.label_max = 2
    /\ ordered = <<wedges[3], wedges[2]>>

\* the order of the stages of pie()
StageOrder ==
    {<<"start", "build">>, <<"start", "done">>, <<"build", "build">>,
     <<"build", "raster">>, <<"raster", "raster">>, <<"raster", "overlay">>,
     <<"overlay", "place">>, <<"overlay", "assemble">>, <<"place", "place">>,
     <<"place", "assemble">>, <<"assemble", "done">>}

\* every row of the grid has been drawn, with all its cells
GridComplete ==
    /\ Len(lines) = 2 * in.radius + 1
    /\ \A k \in 1..Len(lines) : Len(lines[k]) = 2 * in.radius + 1
    /\ Len(raster) = 2 * in.radius + 1

\* C15: the stages follow each other in the order wedge build,
\* rasterization, label placement, assembly: a wedge is built only before the
\* first row is drawn; a row is drawn only when all wedges are built and no
\* label has been placed; a label is written only when all (2*radius+1)^2
\* cells are resolved, the labels are written one per step in rank order,
\* each into its target row only; the text is returned after the last label.
C15_StageOrder ==
    [][ /\ <<pc, pc'>> \in StageOrder
        /\ wedges' # wedges => (pc = "build" /\ lines = <<>> /\ lk = 0)
        /\ Len(lines') # Len(lines) =>
              /\ pc = "raster" /\ lk = 0 /\ lk' = 0
              /\ Len(wedges) = Len(in.labels)
              /\ Len(lines') = Len(lines) + 1
              /\ SubSeq(lines', 1, Len(lines)) = lines
        /\ (lines' # lines /\ Len(lines') = Len(lines)) => lk' = lk + 1
        /\ lk' # lk =>
              /\ lk' = lk + 1 /\ lk < Len(ordered)
              /\ GridComplete /\ raster' = raster
              /\ lk = 0 => lines = raster
              /\ LET row == targets[lk + 1].row_idx + 1
                     w == ordered[lk + 1]
                 IN /\ \A k \in 1..Len(lines) : k # row => lines'[k] = lines[k]
                    /\ lines'[row] = place(lines[row],
                                           fmt(w.lab, w.frac, w.val, in.label_mode),
                                           targets[lk + 1].align)
        /\ lk > 0 => (raster' = raster /\ Len(lines') = Len(lines) /\ wedges' = wedges)
        /\ (ret' # ret /\ ValidCall) => (pc = "assemble" /\ lk = Len(ordered) /\ GridComplete)
      ]_vars

\* two of three labels written, the grid complete and already changed
C15_Witness ==
    /\ pc = "place" /\ lk = 2 /\ Len(ordered) = 3 /\ in.radius = MaxRadius
    /\ GridComplete
    /\ lines # raster
    /\ targets[1].row_idx # targets[2].row_idx

\* wedge idx matches display angle ang: its interval [a0, a1) contains ang,
\* or it is the last wedge and ang >= a0 or ang < a1 mod 2*pi
Matches(idx, ang) ==
    \/ wedges[idx].a0 <= ang /\ ang < wedges[idx].a1
    \/ idx = Len(wedges) /\ (ang >= wedges[idx].a0 \/ ang < wedges[idx].a1 % TwoPi)

RECURSIVE VoteTotal(_)
\* the number of votes in a votes dict
VoteTotal(votes) == IF votes = <<>> THEN 0 ELSE Head(votes)[2] + VoteTotal(Tail(votes))

\* C16: in a valid call, for every display angle in [0, 2*pi) wedge_char
\* returns the glyph of the first wedge, in input order, that matches the
\* angle, and some wedge does match (the blank fallback is not reached); so
\* every inside sample of a cell votes for a wedge glyph and the cell's votes
\* add up to its number of inside samples.
C16_WedgeLookup ==
    /\ Built =>
          \A ang \in 0..(TwoPi - 1) :
              \E idx \in 1..Len(wedges) :
                  /\ Matches(idx, ang)
                  /\ \A m \in 1..(idx - 1) : ~Matches(m, ang)
                  /\ wedge_char(ang, wedges) = wedges[idx].ch
    /\ Rastered =>
          LET g == Geo(in.radius, in.hole, in.samples)
          IN \A p \in Cells :
                LET acc == CellScan([votes |-> <<>>, border_vote |-> 0, inside |-> 0],
                                    p[2] - 1 - in.radius, p[1] - 1 - in.radius, 0,
                                    in, wedges, g)
                IN /\ VoteTotal(acc.votes) = acc.inside
                   /\ acc.inside = Cardinality(InsideSamples(p[1], p[2], g))
                   /\ \A k \in 1..Len(acc.votes) : acc.votes[k][1] \in WedgeGlyphs
                   /\ \A n \in InsideSamples(p[1], p[2], g) :
                         SampleGlyph(p[1], p[2], n) \in WedgeGlyphs

\* counts [1, 0, 3]: the angle pi/2 skips the first wedge and the empty
\* second wedge and is matched by the third
C16_Witness ==
    /\ Rastered /\ in.counts = <<1, 0, 3>> /\ in.chars = <<>>
    /\ ~Matches(1, TwoPi \div 4) /\ ~Matches(2, TwoPi \div 4) /\ Matches(3, TwoPi \div 4)
    /\ wedge_char(TwoPi \div 4, wedges) = wedges[3].ch
    /\ \E p \in Cells : raster[p[1]][p[2]] = wedges[3].ch
    /\ \A p \in Cells : raster[p[1]][p[2]] # wedges[2].ch

====
